---- MODULE Spec2Model ----
(***************************************************************************)
(* A model of video_transcriber.py: the size-bounded splitter              *)
(* (split_video_by_size), the chunked transcription (transcribe_audio),    *)
(* the per-file orchestration (process_video), the retry loops around the  *)
(* analysis service, the usage counters, the cost ledger                   *)
(* (TotalCostTracker) and the polling loop of main.                        *)
(*                                                                         *)
(* Sizes are in MB, times in seconds.  A file's content is the window      *)
(* [lo, hi] of the downloaded source it holds, so that a transcript shows  *)
(* which windows of the source it covers.  The encoder and the services    *)
(* are the environment: every outcome they can produce is a choice.        *)
(***************************************************************************)
EXTENDS Integers, Sequences, FiniteSets, TLC

\* ------------------------------------------------------------------ bounds
\* Non-nominal outcomes of the environment (a failed or oversized encode, a
\* failed open, a failed service call) allowed in one behaviour.
MaxFaults == 4
\* Nested split_video_by_size calls the model follows; the call after that
\* is recorded in ov and not followed.
MaxDepth == 2
\* add_cost calls in one behaviour of the ledger on its own.
MaxCommits == 3
\* add_usage and add_transcription calls in one behaviour of the counters on
\* their own.
MaxUpdates == 3

\* --------------------------------------------------------------- constants
SIZE_LIMIT == 15
MAX_FILE_SIZE == 25
CHUNK_DURATION == 600
MAX_RETRIES == 3
RETRY_DELAY == 5

\* Sizes (MB) and durations (s) of the downloaded source files.
SrcSizes == {10, 20, 28, 40}
SrcDurations == {480, 1440}
\* Sizes (MB) an encode step can produce.
EncSizes == {10, 20, 30}

\* ------------------------------------------------------------------- files
\* math.ceil(total_size / (15 * 1024 * 1024))
NumChunks(size) == (size + SIZE_LIMIT - 1) \div SIZE_LIMIT

SrcPath == <<"src", 0, 0>>
\* TEMP_DIR / f"part_{i+1}_of_{num_chunks}.mp4"
PartPath(i, n) == <<"part", i + 1, n>>
\* TEMP_DIR / f"compressed_part_{i+1}_of_{num_chunks}.mp4"
CompressedPath(i, n) == <<"comp", i + 1, n>>

\* What a path holds: ex = the file exists; [lo, hi] = the window of the
\* source it holds; ok = FALSE when the content is not a clean window (it was
\* read from a file that was being overwritten).
NoFile == [ex |-> FALSE, size |-> 0, lo |-> 0, hi |-> 0, ok |-> FALSE]
File(size, lo, hi, ok) == [ex |-> TRUE, size |-> size, lo |-> lo, hi |-> hi, ok |-> ok]

\* The temp directory g is a function on the paths that exist.
At(g, path) == IF path \in DOMAIN g THEN g[path] ELSE NoFile
Put(g, path, c) == [q \in DOMAIN g \cup {path} |-> IF q = path THEN c ELSE g[q]]

\* ------------------------------------------------------------ transcripts
\* A string is a sequence of tokens: the text the service returned for a
\* content, one of the code's markers, or the separator of " ".join.
Tok(k, a, b) == [k |-> k, a |-> a, b |-> b]
SP == Tok("SP", 0, 0)
\* transcript.text for the file submitted
Text(c) == Tok("T", c.lo, c.hi)
\* f"[Chunk {i+1} não encontrado]"
ChunkMissing(i) == Tok("ChunkMissing", i + 1, 0)
\* f"[Subchunk {j+1} não encontrado]"
SubchunkMissing(j) == Tok("SubchunkMissing", j + 1, 0)
\* f"[Erro na transcrição da parte {i+1}.{j+1}]"
SubError(i, j) == Tok("Erro", i + 1, j + 1)
\* f"[Erro na transcrição da parte {i+1}]"
PartError(i) == Tok("Erro", i + 1, 0)
\* f" [Falha na transcrição. Continua na próxima parte.] "
Falha == Tok("Falha", 0, 0)

\* " ".join(strings)
RECURSIVE Join(_)
Join(strs) ==
    IF strs = <<>> THEN <<>>
    ELSE IF Len(strs) = 1 THEN strs[1]
    ELSE strs[1] \o <<SP>> \o Join(Tail(strs))

\* t.startswith(" [Falha")
StartsWithFalha(t) == t # <<>> /\ t[1] = Falha

IsMarker(tok) == tok.k \in {"ChunkMissing", "SubchunkMissing", "Erro", "Falha"}

\* ------------------------------------------------------------------- state
VARIABLES
    fs,        \* the temp directory: path -> content
    sv,        \* active split_video_by_size calls, innermost last
    ov,        \* a recursive split_video_by_size call was made beyond MaxDepth
    ta,        \* the transcribe_audio call, if any
    pv,        \* the process_video call
    calls,     \* the requests sent to the transcription service, in order
    rl,        \* the retry loop around a call of the analysis service, if any
    processed_ids,  \* main's set of the ids already processed
    token_counter,          \* the global TokenCounter
    transcription_counter,  \* the global TranscriptionCounter
    total_cost_tracker,     \* the global TotalCostTracker
    cost_file, \* TOTAL_COST_FILE: what the file holds
    ids_file,  \* PROCESSED_IDS_FILE: what the file holds
    mn,        \* main: its polling loop
    est,       \* the last estimate_cost calls on the two counters
    workers,   \* the TotalCostTracker of each of two processes run side by side
    faults     \* non-nominal outcomes of the environment so far

vars ==
    <<fs, sv, ov, ta, pv, calls, rl, processed_ids, token_counter,
      transcription_counter, total_cost_tracker, cost_file, ids_file, mn, est,
      workers, faults>>

\* The whole state as one value, for the operators below.
Cur ==
    [fs |-> fs, sv |-> sv, ov |-> ov, ta |-> ta, pv |-> pv, calls |-> calls,
     rl |-> rl, processed_ids |-> processed_ids, token_counter |-> token_counter,
     transcription_counter |-> transcription_counter,
     total_cost_tracker |-> total_cost_tracker, cost_file |-> cost_file,
     ids_file |-> ids_file, mn |-> mn, est |-> est, workers |-> workers]

Set(s) ==
    /\ fs' = s.fs
    /\ sv' = s.sv
    /\ ov' = s.ov
    /\ ta' = s.ta
    /\ pv' = s.pv
    /\ calls' = s.calls
    /\ rl' = s.rl
    /\ processed_ids' = s.processed_ids
    /\ token_counter' = s.token_counter
    /\ transcription_counter' = s.transcription_counter
    /\ total_cost_tracker' = s.total_cost_tracker
    /\ cost_file' = s.cost_file
    /\ ids_file' = s.ids_file
    /\ mn' = s.mn
    /\ est' = s.est
    /\ workers' = s.workers

\* os.remove(path), done by the code only when os.path.exists(path)
Remove(g, path) == [q \in DOMAIN g \ {path} |-> g[q]]

\* transcribe_audio: its locals, and for the claims: part = the index of the
\* part of process_video it was called for (-1: for the whole file), chunked =
\* it went on to split the file, ev = the chunk (i) and piece (j, 0 for the
\* chunk itself) each entry of transcripts stands for.
TaIdle ==
    [pc |-> "idle", video_path |-> SrcPath, part |-> -1, chunks |-> <<>>, i |-> 0,
     smaller_chunks |-> <<>>, j |-> 0, transcripts |-> <<>>, ev |-> <<>>,
     chunked |-> FALSE, result |-> <<>>, raised |-> FALSE]

\* process_video: its locals, and for the claims: ev = the part each entry of
\* all_transcripts stands for, skipped = the parts skipped as missing,
\* durations = the durations counted for this file by add_transcription,
\* responses = the responses counted for it by add_usage.
PvInit(pc) ==
    [pc |-> pc, parts |-> <<>>, i |-> 0, all_transcripts |-> <<>>,
     full_transcript |-> <<>>, ev |-> <<>>, skipped |-> {}, why |-> "",
     analysis |-> "none", roi_report |-> "none", saved |-> FALSE,
     custo_atual |-> 0, committed |-> FALSE, durations |-> <<>>,
     responses |-> 0]

\* The id of the video main is processing.
VideoId == "v1"

\* ---------------------------------------------------------------- counters
\* Money is in units of $0.0001, tokens are in thousands, audio in seconds.
\* GPT4O_TRANSCRIBE_PRICE_PER_MINUTE = 0.006, that is 0.0001 a second
TRANSCRIBE_PRICE == 1
\* GPT41_PROMPT_PRICE = 0.01 per 1K tokens
PROMPT_PRICE == 100
\* GPT41_COMPLETION_PRICE = 0.03 per 1K tokens
COMPLETION_PRICE == 300

\* TokenCounter.__init__ and TokenCounter.reset
TokenCounterReset == [total_tokens |-> 0, prompt_tokens |-> 0, completion_tokens |-> 0]

\* TokenCounter.add_usage, for n responses; the usage of a response is 1K
\* prompt tokens and 1K completion tokens.
AddUsage(c, n) ==
    [total_tokens |-> c.total_tokens + 2 * n,
     prompt_tokens |-> c.prompt_tokens + n,
     completion_tokens |-> c.completion_tokens + n]

\* TokenCounter.estimate_cost
TokenCost(c) == c.prompt_tokens * PROMPT_PRICE + c.completion_tokens * COMPLETION_PRICE

\* TranscriptionCounter.__init__ and TranscriptionCounter.reset
TranscriptionCounterReset == [total_seconds |-> 0, total_files |-> 0]

\* TranscriptionCounter.add_transcription(duration_seconds)
AddTranscription(c, duration_seconds) ==
    [total_seconds |-> c.total_seconds + duration_seconds,
     total_files |-> c.total_files + 1]

\* TranscriptionCounter.estimate_cost
TranscriptionCost(c) == c.total_seconds * TRANSCRIBE_PRICE

\* The estimate_cost calls on the two counters, for the claims: n = the calls
\* made since a counter was last updated (2: two or more), tk and tr = the
\* counters as the last call found them, token and transcription = what it
\* returned, prev_token and prev_transcription = what the call before it
\* returned, updates = the add_usage and add_transcription calls so far.
NoEst ==
    [n |-> 0, tk |-> TokenCounterReset, tr |-> TranscriptionCounterReset,
     token |-> 0, transcription |-> 0, prev_token |-> 0, prev_transcription |-> 0,
     updates |-> 0]

\* A variant of the two estimate_cost calls that clears the counters it read.
EstimatedAndCleared(s) ==
    [s EXCEPT !.est = [s.est EXCEPT !.n = IF s.est.n < 2 THEN s.est.n + 1 ELSE 2,
                                    !.tk = s.token_counter,
                                    !.tr = s.transcription_counter,
                                    !.token = TokenCost(s.token_counter),
                                    !.transcription = TranscriptionCost(s.transcription_counter),
                                    !.prev_token = s.est.token,
                                    !.prev_transcription = s.est.transcription],
              !.token_counter = TokenCounterReset,
              !.transcription_counter = TranscriptionCounterReset]

\* token_counter.estimate_cost() and transcription_counter.estimate_cost():
\* each reads the fields of its counter and returns the value; neither
\* assigns to a field.
Estimated(s) ==
    [s EXCEPT !.est = [s.est EXCEPT !.n = IF s.est.n < 2 THEN s.est.n + 1 ELSE 2,
                                    !.tk = s.token_counter,
                                    !.tr = s.transcription_counter,
                                    !.token = TokenCost(s.token_counter),
                                    !.transcription = TranscriptionCost(s.transcription_counter),
                                    !.prev_token = s.est.token,
                                    !.prev_transcription = s.est.transcription]]

\* A counter was updated: the next estimate_cost is the first one since.
Updated(s) == [s EXCEPT !.est.n = 0, !.est.updates = s.est.updates + 1]

\* ------------------------------------------------------------------ ledger
\* A JSON file of the program: absent, valid (it holds the value written), or
\* partial (empty or cut short: json.load raises on it).
NoCostFile == [st |-> "absent", total_cost |-> 0]
NoIdsFile == [st |-> "absent", ids |-> {}]

\* What a `with open(file, 'w') as f: json.dump(data, f)` can do: write the
\* data; fail to open the file, which is left as it was; or fail after open()
\* truncated the file.  The callers catch the exception and go on.
SaveOutcomes == {"written", "unopened", "truncated"}
SaveCost(o) == IF o = "written" THEN 0 ELSE 1

\* TotalCostTracker.load: total_cost stays 0.0 unless the file can be read.
Load(f) == IF f.st = "valid" THEN f.total_cost ELSE 0

\* TotalCostTracker.__init__; pc = where the tracker is ("loaded", in add_cost
\* at "open" or "dump", "returned" from add_cost, "down": the process is not
\* running); for the claims, before and after are the total before and after
\* the last add_cost, stored is the last total that save wrote to the end,
\* commits counts the add_cost calls, crashed_at is where the process last
\* stopped.
TrackerLoaded(f) ==
    [total_cost |-> Load(f), pc |-> "loaded", before |-> Load(f), after |-> Load(f),
     stored |-> Load(f), commits |-> 0, crashed_at |-> "none"]

\* A variant that takes the cost off the total.
AddCostRefund(t, cost) ==
    [t EXCEPT !.total_cost = t.total_cost - cost, !.pc = "open",
              !.before = t.total_cost, !.after = t.total_cost - cost,
              !.commits = t.commits + 1]

\* TotalCostTracker.add_cost up to self.save()
AddCostStarted(t, cost) ==
    [t EXCEPT !.total_cost = t.total_cost + cost, !.pc = "open",
              !.before = t.total_cost, !.after = t.total_cost + cost,
              !.commits = t.commits + 1]

\* The process stops where it is; what it held in memory is lost.
Crashed(t) == [t EXCEPT !.pc = "down", !.total_cost = 0, !.crashed_at = t.pc]

\* The process is started again: total_cost_tracker = TotalCostTracker()
Restarted(t, f) == [t EXCEPT !.pc = "loaded", !.total_cost = Load(f)]

\* TotalCostTracker.save: open(TOTAL_COST_FILE, 'w')
SaveOpened(s, opened) ==
    IF opened
    THEN [s EXCEPT !.cost_file = [st |-> "partial", total_cost |-> 0],
                   !.total_cost_tracker.pc = "dump"]
    ELSE [s EXCEPT !.total_cost_tracker.pc = "returned"]

\* TotalCostTracker.save: json.dump(data, f), and the return of add_cost
SaveDumped(s, dumped) ==
    IF dumped
    THEN [s EXCEPT !.cost_file = [st |-> "valid",
                                  total_cost |-> s.total_cost_tracker.total_cost],
                   !.total_cost_tracker.stored = s.total_cost_tracker.total_cost,
                   !.total_cost_tracker.pc = "returned"]
    ELSE [s EXCEPT !.total_cost_tracker.pc = "returned"]

\* TotalCostTracker.add_cost(cost), whole.
AddCost(s, cost, o) ==
    LET s1 == [s EXCEPT !.total_cost_tracker = AddCostStarted(s.total_cost_tracker, cost)]
    IN IF o = "unopened" THEN SaveOpened(s1, FALSE)
       ELSE SaveDumped(SaveOpened(s1, TRUE), o = "written")

\* load_processed_ids
LoadProcessedIds(f) == IF f.st = "valid" THEN f.ids ELSE {}

\* save_processed_ids(processed_ids)
SaveProcessedIds(f, ids, o) ==
    IF o = "written" THEN [st |-> "valid", ids |-> ids]
    ELSE IF o = "truncated" THEN [st |-> "partial", ids |-> {}]
    ELSE f

\* main outside its polling loop (a single video is being processed).
NoMain ==
    [pc |-> "video", folders |-> <<>>, parents |-> <<>>, all_new_videos |-> <<>>,
     completed |-> {}, redone |-> {}, failed |-> {}, charged |-> {},
     recharged |-> {}]

\* --------------------------------------------------------------- retry loops
\* generate_sales_analysis, generate_roi_report and identify_speakers share one
\* loop: for attempt in range(max_retries), the call in a try block.
RetryFns == {"generate_sales_analysis", "generate_roi_report", "identify_speakers"}

\* What one pass of the try block can do: return the response, or raise
\* (identify_speakers has a handler of its own for openai.RateLimitError).
\* generate_roi_report makes two requests in one pass: "late_...": the first
\* one answered (its usage is counted) and the second one raised.
AttemptOutcomes(fn) ==
    {"ok", "rate_limit", "error"} \cup
    (IF fn = "generate_roi_report" THEN {"late_rate_limit", "late_error"} ELSE {})
AttemptCost(o) == IF o = "ok" THEN 0 ELSE 1

\* token_counter.add_usage(response) calls made in a pass that ends as o.
Usage(fn, o) ==
    IF fn = "generate_roi_report"
    THEN (IF o = "ok" THEN 2 ELSE IF o \in {"late_rate_limit", "late_error"} THEN 1 ELSE 0)
    ELSE (IF o = "ok" THEN 1 ELSE 0)

\* A retry loop: attempt and retry_delay are its locals; for the claims,
\* sleeps = the time.sleep calls made, log = how each pass ended, usage = the
\* responses counted, result = "response" or "fallback" once it returned.
NoRetry ==
    [fn |-> "none", attempt |-> 0, retry_delay |-> 0, sleeps |-> <<>>,
     log |-> <<>>, usage |-> 0, result |-> "none"]

\* max_retries = 3; retry_delay = 5
RetryStart(fn) ==
    [fn |-> fn, attempt |-> 0, retry_delay |-> RETRY_DELAY, sleeps |-> <<>>,
     log |-> <<>>, usage |-> 0, result |-> "none"]

\* The except block: if attempt < max_retries - 1: time.sleep(retry_delay);
\* retry_delay *= 2, and the loop goes on; else the fallback is returned.
\* A variant without back-off: the delay is not doubled.
RetryFailedFlat(r) ==
    IF r.attempt < MAX_RETRIES - 1
    THEN [r EXCEPT !.sleeps = Append(r.sleeps, r.retry_delay),
                   !.attempt = r.attempt + 1]
    ELSE [r EXCEPT !.result = "fallback"]

\* A variant whose last except block re-raises instead of returning the
\* fallback text.
RetryFailedRaising(r) ==
    IF r.attempt < MAX_RETRIES - 1
    THEN [r EXCEPT !.sleeps = Append(r.sleeps, r.retry_delay),
                   !.retry_delay = r.retry_delay * 2,
                   !.attempt = r.attempt + 1]
    ELSE [r EXCEPT !.result = "raised"]

RetryFailed(r) ==
    IF r.attempt < MAX_RETRIES - 1
    THEN [r EXCEPT !.sleeps = Append(r.sleeps, r.retry_delay),
                   !.retry_delay = r.retry_delay * 2,
                   !.attempt = r.attempt + 1]
    ELSE [r EXCEPT !.result = "fallback"]

\* One pass of the loop body, the call ending as o.
RetryStep(r, o) ==
    LET r1 == [r EXCEPT !.log = Append(r.log, o), !.usage = r.usage + Usage(r.fn, o)]
    IN IF o = "ok" THEN [r1 EXCEPT !.result = "response"] ELSE RetryFailed(r1)

\* ----------------------------------------------------------- process_video
\* The finally block: os.remove(video_path) when it exists.
PvFinally(s) ==
    IF At(s.fs, SrcPath).ex THEN [s EXCEPT !.fs = Remove(s.fs, SrcPath)] ELSE s

\* An exception leaves the try block: it is re-raised after the finally block.
PvRaise(s, why) == PvFinally([s EXCEPT !.pv.pc = "raised", !.pv.why = why])

\* full_transcript = " ".join(all_transcripts), then
\* analysis = generate_sales_analysis(full_transcript) is called.
PvMerge(s) ==
    [s EXCEPT !.pv.pc = "analysis",
              !.pv.full_transcript = Join(s.pv.all_transcripts),
              !.rl = RetryStart("generate_sales_analysis")]

\* main, once process_video returned: processed_ids.add(video['id']);
\* save_processed_ids(processed_ids)
MainProcessed(s, id, o) ==
    [s EXCEPT !.processed_ids = s.processed_ids \cup {id},
              !.ids_file = SaveProcessedIds(s.ids_file, s.processed_ids \cup {id}, o)]

\* save_results up to generate_roi_report: the folder of the video is created
\* on the Drive (created = FALSE: the call raises, and so does save_results).
PvSaveStarted(s, created) ==
    IF created
    THEN [s EXCEPT !.pv.pc = "roi", !.rl = RetryStart("generate_roi_report")]
    ELSE PvRaise(s, "save_failed")

\* A variant that adds the cost to the ledger before the uploads: a failed
\* upload leaves it there.
PvUploadedEager(s, uploaded, costSaved, idsSaved) ==
    LET custo_atual == TokenCost(s.token_counter)
                       + TranscriptionCost(s.transcription_counter)
        s1 == AddCost([s EXCEPT !.pv.custo_atual = custo_atual, !.pv.committed = TRUE],
                      custo_atual, costSaved)
    IN IF uploaded
       THEN MainProcessed(PvFinally([s1 EXCEPT !.pv.pc = "done", !.pv.saved = TRUE]),
                          VideoId, idsSaved)
       ELSE PvRaise(s1, "save_failed")

\* The rest of save_results (the uploads) and of process_video: the summary,
\* total_cost_tracker.add_cost(custo_atual), the finally block; then main.
PvUploaded(s, uploaded, costSaved, idsSaved) ==
    IF uploaded
    THEN LET custo_atual == TokenCost(s.token_counter)
                            + TranscriptionCost(s.transcription_counter)
             s1 == [s EXCEPT !.pv.pc = "done", !.pv.saved = TRUE,
                             !.pv.custo_atual = custo_atual, !.pv.committed = TRUE]
         IN MainProcessed(PvFinally(AddCost(s1, custo_atual, costSaved)), VideoId, idsSaved)
    ELSE PvRaise(s, "save_failed")

\* A retry loop returned `result` to process_video or to save_results.
RetryReturn(s, result) ==
    IF s.pv.pc = "analysis"
    THEN [s EXCEPT !.pv.analysis = result, !.pv.pc = "save", !.rl = NoRetry]
    ELSE IF s.pv.pc = "roi"
    THEN [s EXCEPT !.pv.roi_report = result, !.pv.pc = "upload", !.rl = NoRetry]
    ELSE s

\* One pass of the retry loop, and the return if it ends the loop.
Attempted(s, o) ==
    LET r == RetryStep(s.rl, o)
        s1 == [s EXCEPT !.rl = r,
                        !.token_counter = AddUsage(s.token_counter, Usage(s.rl.fn, o)),
                        !.pv.responses = s.pv.responses + Usage(s.rl.fn, o)]
    IN IF r.result # "none" THEN RetryReturn(s1, r.result) ELSE s1

\* A variant that raises on any failed part: if any(t.startswith(" [Falha") for t in all_transcripts): raise
SomeFailed(all) == \E k \in 1..Len(all) : StartsWithFalha(all[k])

\* if not any(not t.startswith(" [Falha") for t in all_transcripts): raise
AllFailed(all) == ~(\E k \in 1..Len(all) : ~StartsWithFalha(all[k]))

PvAfterParts(s) ==
    IF AllFailed(s.pv.all_transcripts) THEN PvRaise(s, "all_failed") ELSE PvMerge(s)

\* A variant, all_transcripts.insert(0, t): the order of the parts is lost.
PvPrepend(p, t) ==
    [p EXCEPT !.all_transcripts = <<t>> \o p.all_transcripts,
              !.ev = <<p.i>> \o p.ev]

\* all_transcripts.append(t), for part i (0-based)
PvAppend(p, t) ==
    [p EXCEPT !.all_transcripts = Append(p.all_transcripts, t),
              !.ev = Append(p.ev, p.i)]

\* transcribe_audio(path) is entered, for part `part` (-1: the whole file).
TaEnter(path, part) ==
    [pc |-> "open", video_path |-> path, part |-> part, chunks |-> <<>>, i |-> 0,
     smaller_chunks |-> <<>>, j |-> 0, transcripts |-> <<>>, ev |-> <<>>,
     chunked |-> FALSE, result |-> <<>>, raised |-> FALSE]

\* for i, part in enumerate(parts, 1): a part whose file is missing is skipped
\* (continue); otherwise transcribe_audio(part) is called.
RECURSIVE PvLoop(_)
PvLoop(s) ==
    IF s.pv.i >= Len(s.pv.parts) THEN PvAfterParts(s)
    ELSE LET part == s.pv.parts[s.pv.i + 1]
         IN IF ~At(s.fs, part).ex
            THEN PvLoop([s EXCEPT !.pv.i = s.pv.i + 1,
                                  !.pv.skipped = s.pv.skipped \cup {s.pv.i}])
            ELSE [s EXCEPT !.pv.pc = "part", !.ta = TaEnter(part, s.pv.i)]

\* The end of the loop body: if part != video_path and os.path.exists(part):
\* os.remove(part)
PvPartDone(s) ==
    LET part == s.pv.parts[s.pv.i + 1]
        g == IF part # SrcPath /\ At(s.fs, part).ex THEN Remove(s.fs, part) ELSE s.fs
    IN PvLoop([s EXCEPT !.fs = g, !.pv.i = s.pv.i + 1])

\* transcribe_audio returned text to process_video.
PvTaReturn(s, text) ==
    IF s.pv.pc = "direct"
    THEN PvMerge([s EXCEPT !.pv = PvAppend(s.pv, text)])
    ELSE PvPartDone([s EXCEPT !.pv = PvAppend(s.pv, text)])

\* transcribe_audio raised: fatal for a file sent whole, a marker for a part.
PvTaRaise(s) ==
    IF s.pv.pc = "direct"
    THEN PvRaise(s, "transcribe")
    ELSE PvPartDone([s EXCEPT !.pv = PvAppend(s.pv, <<Falha>>)])

\* parts = split_video_by_size(video_path); if not parts: raise ValueError
PvSplitReturn(s, result) ==
    IF result = <<>>
    THEN PvRaise(s, "split_failed")
    ELSE PvLoop([s EXCEPT !.pv.parts = result, !.pv.i = 0])

\* -------------------------------------------------------- transcribe_audio
TaReturn(s, text) ==
    PvTaReturn([s EXCEPT !.ta.pc = "idle", !.ta.result = text], text)

TaRaise(s) ==
    PvTaRaise([s EXCEPT !.ta.pc = "idle", !.ta.raised = TRUE])

\* transcripts.append(t), for chunk i and, in a re-split, piece j (j = 0: the
\* chunk itself)
TaAppend(a, j, t) ==
    [a EXCEPT !.transcripts = Append(a.transcripts, t),
              !.ev = Append(a.ev, <<a.i, j>>)]

\* full_transcript = " ".join(transcripts); return full_transcript
TaAfterLoop(s) == TaReturn(s, Join(s.ta.transcripts))

\* for i, chunk_path in enumerate(chunks): a missing chunk leaves a marker.
RECURSIVE TaLoop(_)
TaLoop(s) ==
    IF s.ta.i >= Len(s.ta.chunks) THEN TaAfterLoop(s)
    ELSE IF ~At(s.fs, s.ta.chunks[s.ta.i + 1]).ex
    THEN TaLoop([s EXCEPT !.ta = [TaAppend(s.ta, 0, <<ChunkMissing(s.ta.i)>>)
                                     EXCEPT !.i = s.ta.i + 1]])
    ELSE [s EXCEPT !.ta.pc = "chunk"]

\* The end of the loop body: os.remove(chunk_path) when it exists.
TaChunkDone(s) ==
    LET c == s.ta.chunks[s.ta.i + 1]
        g == IF At(s.fs, c).ex THEN Remove(s.fs, c) ELSE s.fs
    IN TaLoop([s EXCEPT !.fs = g, !.ta.i = s.ta.i + 1])

\* for j, small_chunk in enumerate(smaller_chunks)
RECURSIVE TaSubLoop(_)
TaSubLoop(s) ==
    IF s.ta.j >= Len(s.ta.smaller_chunks) THEN TaChunkDone(s)
    ELSE IF ~At(s.fs, s.ta.smaller_chunks[s.ta.j + 1]).ex
    THEN TaSubLoop([s EXCEPT !.ta = [TaAppend(s.ta, s.ta.j + 1, <<SubchunkMissing(s.ta.j)>>)
                                        EXCEPT !.j = s.ta.j + 1]])
    ELSE [s EXCEPT !.ta.pc = "sub"]

\* The end of the inner loop body: os.remove(small_chunk) when it exists.
TaSubDone(s) ==
    LET c == s.ta.smaller_chunks[s.ta.j + 1]
        g == IF At(s.fs, c).ex THEN Remove(s.fs, c) ELSE s.fs
    IN TaSubLoop([s EXCEPT !.fs = g, !.ta.j = s.ta.j + 1])

\* split_video_by_size returned to transcribe_audio.
TaSplitReturn(s, result) ==
    IF s.ta.pc = "split"
    THEN TaLoop([s EXCEPT !.ta.chunks = result, !.ta.i = 0])
    ELSE TaSubLoop([s EXCEPT !.ta.smaller_chunks = result, !.ta.j = 0])

\* ----------------------------------------------------- split_video_by_size
\* One call of split_video_by_size past its early returns: the clip opened on
\* video_path (src = what the file held when it was opened), the loop index i
\* and the parts collected so far.  pc = "enc1": about to write part i;
\* "enc2": part i was written and is over the limit; "rec": the compressed
\* part is over the limit too and the recursive call is next.
\* A variant that cuts the file in windows of chunk_duration seconds.
FrameByDuration(path, cd, content) ==
    [video_path |-> path, chunk_duration |-> cd, src |-> content,
     num_chunks |-> (content.hi - content.lo + cd - 1) \div cd, i |-> 0,
     parts |-> <<>>, pc |-> "enc1"]

Frame(path, cd, content) ==
    [video_path |-> path, chunk_duration |-> cd, src |-> content,
     num_chunks |-> NumChunks(content.size), i |-> 0, parts |-> <<>>,
     pc |-> "enc1"]

Top == sv[Len(sv)]
Pop(stack) == SubSeq(stack, 1, Len(stack) - 1)

\* part_duration = total_duration / num_chunks
PartDuration(f) == (f.src.hi - f.src.lo) \div f.num_chunks
\* start_time = i * part_duration
StartTime(f) == f.i * PartDuration(f)
\* end_time = min((i + 1) * part_duration, total_duration)
EndTime(f) ==
    LET e == (f.i + 1) * PartDuration(f)
        d == f.src.hi - f.src.lo
    IN IF e < d THEN e ELSE d

\* What write_videofile(target) writes for window i of frame f: that window of
\* the source, or an unclean content when the file the clip reads is not the
\* one that was opened any more (it was overwritten since) or is the target.
Encoded(f, g, target, size) ==
    IF At(g, f.video_path) = f.src /\ f.src.ok /\ target # f.video_path
    THEN File(size, f.src.lo + StartTime(f), f.src.lo + EndTime(f), TRUE)
    ELSE File(size, 0, 0, FALSE)

\* What a write_videofile call can do: raise, return having written nothing,
\* or write a file of some size.
EncOutcomes ==
    {[k |-> "raise", size |-> 0], [k |-> "nowrite", size |-> 0]} \cup
    {[k |-> "written", size |-> z] : z \in EncSizes}

\* The loop goes on to the next window (continue, or the end of the body).
NextPart(f, newParts) == [f EXCEPT !.i = f.i + 1, !.parts = newParts, !.pc = "enc1"]

\* parts.append(str(part_path))
AppendPart(f, path) == NextPart(f, Append(f.parts, path))

\* parts.extend(subparts); continue
ExtendParts(f, subparts) == NextPart(f, f.parts \o subparts)

\* The frames left once the innermost call's loop body ended with frame f:
\* a call whose loop is over returns its parts, which its caller's
\* parts.extend(subparts) takes before going on to its own next window.
\* done = the outermost call returned, and parts is what it returned.
RECURSIVE Unwind(_, _)
Unwind(below, f) ==
    IF f.i < f.num_chunks
    THEN [stack |-> Append(below, f), done |-> FALSE, parts |-> <<>>]
    ELSE IF below = <<>>
    THEN [stack |-> <<>>, done |-> TRUE, parts |-> f.parts]
    ELSE Unwind(Pop(below), ExtendParts(below[Len(below)], f.parts))

\* A call returns `result` before its loop (the early returns).
EarlyReturn(below, result) ==
    IF below = <<>>
    THEN [stack |-> <<>>, done |-> TRUE, parts |-> result]
    ELSE Unwind(Pop(below), ExtendParts(below[Len(below)], result))

\* split_video_by_size(path, cd) called with the frames `below` active and
\* the files g.  openFails: VideoFileClip(video_path) raises, and the outer
\* except returns [].
SplitCall(below, g, path, cd, openFails) ==
    IF ~At(g, path).ex THEN EarlyReturn(below, <<>>)
    ELSE IF openFails THEN EarlyReturn(below, <<>>)
    ELSE IF At(g, path).size <= SIZE_LIMIT THEN EarlyReturn(below, <<path>>)
    ELSE [stack |-> Append(below, Frame(path, cd, At(g, path))),
          done |-> FALSE, parts |-> <<>>]

\* The outermost split_video_by_size call returned `result` to its caller.
SvReturn(s, result) ==
    IF s.ta.pc \in {"split", "resplit"} THEN TaSplitReturn(s, result)
    ELSE IF s.pv.pc = "split" THEN PvSplitReturn(s, result)
    ELSE [s EXCEPT !.pv.pc = "returned", !.pv.parts = result]

\* The state after a step of the splitter left the frames r and the files g.
SvFinish(s, g, r) ==
    LET s1 == [s EXCEPT !.fs = g, !.sv = r.stack]
    IN IF r.done THEN SvReturn(s1, r.parts) ELSE s1

\* The first write_videofile of window i (bitrate 1000k) and what follows it up
\* to the next encode.  o = "raise": it raises (except: the window is skipped);
\* "nowrite": it returns and writes nothing; a size: it writes the part.
EncodeFirst(s, o) ==
    LET f == s.sv[Len(s.sv)]
        part_path == PartPath(f.i, f.num_chunks)
        g == IF o.k = "written"
             THEN Put(s.fs, part_path, Encoded(f, s.fs, part_path, o.size))
             ELSE s.fs
        f1 == IF o.k = "raise" THEN NextPart(f, f.parts)
              ELSE IF ~At(g, part_path).ex THEN NextPart(f, f.parts)
              ELSE IF At(g, part_path).size > SIZE_LIMIT THEN [f EXCEPT !.pc = "enc2"]
              ELSE AppendPart(f, part_path)
    IN SvFinish(s, g, Unwind(Pop(s.sv), f1))

\* The second write_videofile of window i (bitrate 500k), to compressed_path.
\* o = "raise": the inner except, then parts.append(str(part_path)) with the
\* first part; "nowrite": parts.append(part_path) unless a file is there; a
\* size: the first part is removed and the compressed one taken, or recursed on.
EncodeSecond(s, o) ==
    LET f == s.sv[Len(s.sv)]
        part_path == PartPath(f.i, f.num_chunks)
        compressed_path == CompressedPath(f.i, f.num_chunks)
        g == IF o.k = "written"
             THEN Put(s.fs, compressed_path, Encoded(f, s.fs, compressed_path, o.size))
             ELSE s.fs
        taken == o.k # "raise" /\ At(g, compressed_path).ex
        g1 == IF taken /\ At(g, part_path).ex THEN Remove(g, part_path) ELSE g
        f1 == IF ~taken THEN AppendPart(f, part_path)
              ELSE IF At(g1, compressed_path).size > SIZE_LIMIT THEN [f EXCEPT !.pc = "rec"]
              ELSE AppendPart(f, compressed_path)
    IN SvFinish(s, g1, Unwind(Pop(s.sv), f1))

\* subparts = split_video_by_size(str(part_path), chunk_duration // 2)
Recurse(s, openFails) ==
    LET f == s.sv[Len(s.sv)]
    IN SvFinish(s, s.fs,
                SplitCall(s.sv, s.fs, CompressedPath(f.i, f.num_chunks),
                          f.chunk_duration \div 2, openFails))

\* The call of split_video_by_size by transcribe_audio (chunks, or the
\* re-split of a chunk), by process_video, or on its own.
OuterCall(s, openFails) ==
    LET path == IF s.ta.pc = "split" THEN s.ta.video_path
                ELSE IF s.ta.pc = "resplit" THEN s.ta.chunks[s.ta.i + 1]
                ELSE SrcPath
        cd == IF s.ta.pc = "resplit" THEN CHUNK_DURATION \div 2 ELSE CHUNK_DURATION
    IN SvFinish(s, s.fs, SplitCall(<<>>, s.fs, path, cd, openFails))

\* An outcome that counts against MaxFaults.
EncCost(o) == IF o.k = "written" /\ o.size <= SIZE_LIMIT THEN 0 ELSE 1
BoolCost(b) == IF b THEN 1 ELSE 0

SvCall ==
    /\ sv = <<>>
    /\ \/ ta.pc \in {"split", "resplit"}
       \/ ta.pc = "idle" /\ pv.pc \in {"split", "harness"}
    /\ \E openFails \in BOOLEAN :
        /\ faults + BoolCost(openFails) <= MaxFaults
        /\ faults' = faults + BoolCost(openFails)
        /\ Set(OuterCall(Cur, openFails))

SvEncodeFirst ==
    /\ sv # <<>> /\ Top.pc = "enc1"
    /\ \E o \in EncOutcomes :
        /\ faults + EncCost(o) <= MaxFaults
        /\ faults' = faults + EncCost(o)
        /\ Set(EncodeFirst(Cur, o))

SvEncodeSecond ==
    /\ sv # <<>> /\ Top.pc = "enc2"
    /\ \E o \in EncOutcomes :
        /\ faults + EncCost(o) <= MaxFaults
        /\ faults' = faults + EncCost(o)
        /\ Set(EncodeSecond(Cur, o))

SvRecurse ==
    /\ sv # <<>> /\ Top.pc = "rec" /\ Len(sv) < MaxDepth
    /\ \E openFails \in BOOLEAN :
        /\ faults + BoolCost(openFails) <= MaxFaults
        /\ faults' = faults + BoolCost(openFails)
        /\ Set(Recurse(Cur, openFails))

\* The recursive call the model does not follow.
SvRecurseBeyond ==
    /\ sv # <<>> /\ Top.pc = "rec" /\ Len(sv) >= MaxDepth /\ ~ov
    /\ faults' = faults
    /\ Set([Cur EXCEPT !.ov = TRUE])

SrcFiles == {File(z, 0, d, TRUE) : z \in SrcSizes, d \in SrcDurations}

InitFs(c) == [p \in {SrcPath} |-> c]

\* split_video_by_size on its own, on any file.
InitSplit ==
    /\ \E c \in SrcFiles : fs = InitFs(c)
    /\ sv = <<>>
    /\ ov = FALSE
    /\ ta = TaIdle
    /\ pv = PvInit("harness")
    /\ calls = <<>>
    /\ rl = NoRetry
    /\ processed_ids = {}
    /\ token_counter = TokenCounterReset
    /\ transcription_counter = TranscriptionCounterReset
    /\ total_cost_tracker = TrackerLoaded(NoCostFile)
    /\ cost_file = NoCostFile
    /\ ids_file = NoIdsFile
    /\ mn = NoMain
    /\ est = NoEst
    /\ workers = <<>>
    /\ faults = 0

NextSplit == SvCall \/ SvEncodeFirst \/ SvEncodeSecond \/ SvRecurse \/ SvRecurseBeyond

SpecSplit == InitSplit /\ [][NextSplit]_vars

\* ------------------------------------------------------------ the service
\* What openai.audio.transcriptions.create can do with a file: return its
\* text, or raise; the code tells a raised error only by whether its message
\* holds "token limit".
SvcOutcomes == {"ok", "token_limit", "transient"}
SvcCost(o) == IF o = "ok" THEN 0 ELSE 1

\* "token limit" in str(e).lower()
IsTokenLimit(o) == o = "token_limit"

\* The request is logged: the part, chunk and piece it is for (kind = "whole":
\* the file transcribe_audio was called on; "chunk"; "sub": a piece of a
\* re-split chunk), the path and content submitted, and how it ended.
Request(s, kind, path, o) ==
    [s EXCEPT !.calls = Append(s.calls,
        [part |-> s.ta.part, kind |-> kind, i |-> s.ta.i, j |-> s.ta.j,
         path |-> path, c |-> At(s.fs, path), res |-> o])]

\* transcribe_audio up to its first request: the file is opened for its
\* duration (openFails: VideoFileClip raises, and so does transcribe_audio);
\* up to CHUNK_DURATION seconds it is sent whole, otherwise it is split.
TaOpened(s, openFails) ==
    LET c == At(s.fs, s.ta.video_path)
    IN IF ~c.ex \/ openFails THEN TaRaise(s)
       ELSE LET counted == AddTranscription(s.transcription_counter, c.hi - c.lo)
            IN IF c.hi - c.lo <= CHUNK_DURATION
               THEN [s EXCEPT !.ta.pc = "whole", !.transcription_counter = counted,
                              !.pv.durations = Append(s.pv.durations, c.hi - c.lo)]
               ELSE [s EXCEPT !.ta.pc = "split", !.ta.chunked = TRUE,
                              !.transcription_counter = counted,
                              !.pv.durations = Append(s.pv.durations, c.hi - c.lo)]

\* The request for the whole file: its text is returned, an error is raised.
TaWholeDone(s, o) ==
    LET s1 == Request(s, "whole", s.ta.video_path, o)
    IN IF o = "ok" THEN TaReturn(s1, <<Text(At(s.fs, s.ta.video_path))>>)
       ELSE TaRaise(s1)

\* The request for chunk i: its text is appended; on a token-limit error the
\* chunk is split again; on any other error a marker is appended.
TaChunkRequested(s, o) ==
    LET path == s.ta.chunks[s.ta.i + 1]
        s1 == Request(s, "chunk", path, o)
    IN IF o = "ok"
       THEN TaChunkDone([s1 EXCEPT !.ta = TaAppend(s.ta, 0, <<Text(At(s.fs, path))>>)])
       ELSE IF IsTokenLimit(o) THEN [s1 EXCEPT !.ta.pc = "resplit"]
       ELSE TaChunkDone([s1 EXCEPT !.ta = TaAppend(s.ta, 0, <<PartError(s.ta.i)>>)])

\* The request for piece j of the re-split chunk i: text or marker.
TaSubRequested(s, o) ==
    LET path == s.ta.smaller_chunks[s.ta.j + 1]
        s1 == Request(s, "sub", path, o)
        t == IF o = "ok" THEN <<Text(At(s.fs, path))>> ELSE <<SubError(s.ta.i, s.ta.j)>>
    IN TaSubDone([s1 EXCEPT !.ta = TaAppend(s.ta, s.ta.j + 1, t)])

\* process_video up to its first call: a file of at most MAX_FILE_SIZE goes
\* to transcribe_audio whole, a larger one to split_video_by_size.
\* A variant that leaves the counters as they are.
PvStartedNoReset(s) ==
    IF ~At(s.fs, SrcPath).ex THEN PvRaise(s, "not_found")
    ELSE IF At(s.fs, SrcPath).size <= MAX_FILE_SIZE
    THEN [s EXCEPT !.pv.pc = "direct", !.ta = TaEnter(SrcPath, -1)]
    ELSE [s EXCEPT !.pv.pc = "split"]

PvStarted(s0) ==
    LET s == [s0 EXCEPT !.token_counter = TokenCounterReset,
                        !.transcription_counter = TranscriptionCounterReset]
    IN IF ~At(s.fs, SrcPath).ex THEN PvRaise(s, "not_found")
       ELSE IF At(s.fs, SrcPath).size <= MAX_FILE_SIZE
       THEN [s EXCEPT !.pv.pc = "direct", !.ta = TaEnter(SrcPath, -1)]
       ELSE [s EXCEPT !.pv.pc = "split"]

TaOpen ==
    /\ ta.pc = "open"
    /\ \E openFails \in BOOLEAN :
        /\ faults + BoolCost(openFails) <= MaxFaults
        /\ faults' = faults + BoolCost(openFails)
        /\ Set(TaOpened(Cur, openFails))

TaWhole ==
    /\ ta.pc = "whole"
    /\ \E o \in SvcOutcomes :
        /\ faults + SvcCost(o) <= MaxFaults
        /\ faults' = faults + SvcCost(o)
        /\ Set(TaWholeDone(Cur, o))

TaChunk ==
    /\ ta.pc = "chunk"
    /\ \E o \in SvcOutcomes :
        /\ faults + SvcCost(o) <= MaxFaults
        /\ faults' = faults + SvcCost(o)
        /\ Set(TaChunkRequested(Cur, o))

TaSub ==
    /\ ta.pc = "sub"
    /\ \E o \in SvcOutcomes :
        /\ faults + SvcCost(o) <= MaxFaults
        /\ faults' = faults + SvcCost(o)
        /\ Set(TaSubRequested(Cur, o))

PvStart ==
    /\ pv.pc = "start"
    /\ faults' = faults
    /\ Set(PvStarted(Cur))

Attempt ==
    /\ rl.fn # "none" /\ rl.result = "none"
    /\ \E o \in AttemptOutcomes(rl.fn) :
        /\ faults + AttemptCost(o) <= MaxFaults
        /\ faults' = faults + AttemptCost(o)
        /\ Set(Attempted(Cur, o))

PvSave ==
    /\ pv.pc = "save"
    /\ \E created \in BOOLEAN :
        /\ faults + BoolCost(~created) <= MaxFaults
        /\ faults' = faults + BoolCost(~created)
        /\ Set(PvSaveStarted(Cur, created))

PvUpload ==
    /\ pv.pc = "upload"
    /\ \E uploaded \in BOOLEAN, costSaved, idsSaved \in SaveOutcomes :
        LET cost == IF uploaded THEN SaveCost(costSaved) + SaveCost(idsSaved) ELSE 1
        IN /\ uploaded \/ (costSaved = "written" /\ idsSaved = "written")
           /\ faults + cost <= MaxFaults
           /\ faults' = faults + cost
           /\ Set(PvUploaded(Cur, uploaded, costSaved, idsSaved))

\* A retry loop on its own, for each of the three functions.
InitRetry ==
    /\ fs = <<>>
    /\ sv = <<>>
    /\ ov = FALSE
    /\ ta = TaIdle
    /\ pv = PvInit("harness")
    /\ calls = <<>>
    /\ \E fn \in RetryFns : rl = RetryStart(fn)
    /\ processed_ids = {}
    /\ token_counter = TokenCounterReset
    /\ transcription_counter = TranscriptionCounterReset
    /\ total_cost_tracker = TrackerLoaded(NoCostFile)
    /\ cost_file = NoCostFile
    /\ ids_file = NoIdsFile
    /\ mn = NoMain
    /\ est = NoEst
    /\ workers = <<>>
    /\ faults = 0

NextRetry == Attempt

SpecRetry == InitRetry /\ [][NextRetry]_vars

\* ----------------------------------------------------- the ledger on its own
\* The costs add_cost is called with.
Deltas == {0, 2, 3}

LedgerAddCost ==
    /\ total_cost_tracker.pc \in {"loaded", "returned"}
    /\ total_cost_tracker.commits < MaxCommits
    /\ faults' = faults
    /\ \E cost \in Deltas :
        Set([Cur EXCEPT !.total_cost_tracker = AddCostStarted(total_cost_tracker, cost)])

LedgerOpen ==
    /\ total_cost_tracker.pc = "open"
    /\ \E opened \in BOOLEAN :
        /\ faults + BoolCost(~opened) <= MaxFaults
        /\ faults' = faults + BoolCost(~opened)
        /\ Set(SaveOpened(Cur, opened))

LedgerDump ==
    /\ total_cost_tracker.pc = "dump"
    /\ \E dumped \in BOOLEAN :
        /\ faults + BoolCost(~dumped) <= MaxFaults
        /\ faults' = faults + BoolCost(~dumped)
        /\ Set(SaveDumped(Cur, dumped))

LedgerCrash ==
    /\ total_cost_tracker.pc # "down"
    /\ faults < MaxFaults
    /\ faults' = faults + 1
    /\ Set([Cur EXCEPT !.total_cost_tracker = Crashed(total_cost_tracker)])

LedgerStart ==
    /\ total_cost_tracker.pc = "down"
    /\ faults' = faults
    /\ Set([Cur EXCEPT !.total_cost_tracker = Restarted(total_cost_tracker, cost_file)])

InitLedger ==
    /\ fs = <<>>
    /\ sv = <<>>
    /\ ov = FALSE
    /\ ta = TaIdle
    /\ pv = PvInit("harness")
    /\ calls = <<>>
    /\ rl = NoRetry
    /\ processed_ids = {}
    /\ token_counter = TokenCounterReset
    /\ transcription_counter = TranscriptionCounterReset
    /\ total_cost_tracker = TrackerLoaded(NoCostFile)
    /\ cost_file = NoCostFile
    /\ ids_file = NoIdsFile
    /\ mn = NoMain
    /\ est = NoEst
    /\ workers = <<>>
    /\ faults = 0

NextLedger == LedgerAddCost \/ LedgerOpen \/ LedgerDump \/ LedgerCrash \/ LedgerStart

SpecLedger == InitLedger /\ [][NextLedger]_vars

\* ------------------------------------------------- two processes, one ledger
\* The program run twice side by side: each process has a TotalCostTracker of
\* its own, loaded from the one TOTAL_COST_FILE, and calls add_cost once.
Workers == {1, 2}

\* Process w takes the step Op of its tracker.
AsWorker(s, w, Op(_)) ==
    LET s1 == Op([s EXCEPT !.total_cost_tracker = s.workers[w]])
    IN [s1 EXCEPT !.workers = [s.workers EXCEPT ![w] = s1.total_cost_tracker],
                  !.total_cost_tracker = s.total_cost_tracker]

WorkerAddCost(w) ==
    /\ workers[w].pc = "loaded"
    /\ faults' = faults
    /\ \E cost \in Deltas :
        LET Op(s) == [s EXCEPT !.total_cost_tracker = AddCostStarted(s.total_cost_tracker, cost)]
        IN Set(AsWorker(Cur, w, Op))

WorkerOpen(w) ==
    /\ workers[w].pc = "open"
    /\ \E opened \in BOOLEAN :
        LET Op(s) == SaveOpened(s, opened)
        IN /\ faults + BoolCost(~opened) <= MaxFaults
           /\ faults' = faults + BoolCost(~opened)
           /\ Set(AsWorker(Cur, w, Op))

WorkerDump(w) ==
    /\ workers[w].pc = "dump"
    /\ \E dumped \in BOOLEAN :
        LET Op(s) == SaveDumped(s, dumped)
        IN /\ faults + BoolCost(~dumped) <= MaxFaults
           /\ faults' = faults + BoolCost(~dumped)
           /\ Set(AsWorker(Cur, w, Op))

\* What TOTAL_COST_FILE holds when the two processes start.
LedgerFiles == {NoCostFile, [st |-> "valid", total_cost |-> 5]}

InitWorkers ==
    /\ fs = <<>>
    /\ sv = <<>>
    /\ ov = FALSE
    /\ ta = TaIdle
    /\ pv = PvInit("harness")
    /\ calls = <<>>
    /\ rl = NoRetry
    /\ processed_ids = {}
    /\ token_counter = TokenCounterReset
    /\ transcription_counter = TranscriptionCounterReset
    /\ cost_file \in LedgerFiles
    /\ total_cost_tracker = TrackerLoaded(cost_file)
    /\ ids_file = NoIdsFile
    /\ mn = NoMain
    /\ est = NoEst
    /\ workers = [w \in Workers |-> TrackerLoaded(cost_file)]
    /\ faults = 0

NextWorkers == \E w \in Workers : WorkerAddCost(w) \/ WorkerOpen(w) \/ WorkerDump(w)

SpecWorkers == InitWorkers /\ [][NextWorkers]_vars

\* -------------------------------------------------- the counters on their own
\* The responses one add_usage call counts (0: the response has no usage).
UsageSteps == {0, 1, 2}

CounterAddUsage ==
    /\ est.updates < MaxUpdates
    /\ faults' = faults
    /\ \E n \in UsageSteps :
        Set(Updated([Cur EXCEPT !.token_counter = AddUsage(token_counter, n)]))

CounterAddTranscription ==
    /\ est.updates < MaxUpdates
    /\ faults' = faults
    /\ \E d \in SrcDurations \cup {0} :
        Set(Updated([Cur EXCEPT !.transcription_counter =
                                    AddTranscription(transcription_counter, d)]))

CounterReset ==
    /\ est.updates < MaxUpdates
    /\ faults' = faults
    /\ Set(Updated([Cur EXCEPT !.token_counter = TokenCounterReset,
                               !.transcription_counter = TranscriptionCounterReset]))

CounterEstimate ==
    /\ faults' = faults
    /\ Set(Estimated(Cur))

InitCounters ==
    /\ fs = <<>>
    /\ sv = <<>>
    /\ ov = FALSE
    /\ ta = TaIdle
    /\ pv = PvInit("harness")
    /\ calls = <<>>
    /\ rl = NoRetry
    /\ processed_ids = {}
    /\ token_counter = TokenCounterReset
    /\ transcription_counter = TranscriptionCounterReset
    /\ total_cost_tracker = TrackerLoaded(NoCostFile)
    /\ cost_file = NoCostFile
    /\ ids_file = NoIdsFile
    /\ mn = NoMain
    /\ est = NoEst
    /\ workers = <<>>
    /\ faults = 0

NextCounters ==
    CounterAddUsage \/ CounterAddTranscription \/ CounterReset \/ CounterEstimate

SpecCounters == InitCounters /\ [][NextCounters]_vars

\* ------------------------------------------------------------------- main
\* The videos on the Drive, in the order files().list returns them, and the
\* folders they can be in.
Videos == <<"v1", "v2">>
FolderIds == {"f1", "f2"}
\* FOLDERS_TO_MONITOR, as configured.
FolderConfigs == {<<"f1">>, <<"f1", "f1">>, <<"f1", "f2">>}

\* Where the videos are: v1 in f1 and maybe in f2 too, v2 in one of them.
ParentConfigs ==
    {p \in [{"v1", "v2"} -> SUBSET FolderIds] :
        "f1" \in p["v1"] /\ Cardinality(p["v2"]) = 1}

\* get_video_files(service, folder_id)
GetVideoFiles(parents, folder_id) ==
    SelectSeq(Videos, LAMBDA v : folder_id \in parents[v])

\* new_videos = [v for v in video_files if v['id'] not in processed_ids]
NewVideos(parents, folder_id, ids) ==
    SelectSeq(GetVideoFiles(parents, folder_id), LAMBDA v : v \notin ids)

\* for folder_id in FOLDERS_TO_MONITOR: ... all_new_videos.extend(new_videos)
AllNewVideos(folders, parents, ids) ==
    LET acc[k \in 0..Len(folders)] ==
            IF k = 0 THEN <<>>
            ELSE acc[k - 1] \o NewVideos(parents, folders[k], ids)
    IN acc[Len(folders)]

\* The cost process_video adds to the ledger for a video.
VideoCost(id) == IF id = "v1" THEN 2 ELSE 3

\* One pass of `while True` up to the loop over all_new_videos.  listed =
\* FALSE: a files().list call raises; the handler of the loop sleeps and the
\* next pass starts.
MainPolled(s, listed) ==
    LET found == AllNewVideos(s.mn.folders, s.mn.parents, s.processed_ids)
    IN IF listed
       THEN [s EXCEPT !.mn.all_new_videos = found,
                      !.mn.pc = IF found = <<>> THEN "poll" ELSE "process"]
       ELSE s

\* process_video returned for the video `id`: it has added the cost of the
\* video to the ledger.  For the claims: completed = the ids process_video
\* returned for, charged = the ids whose cost was written to TOTAL_COST_FILE,
\* recharged = the ids whose cost was written to it again.
MainCharged(s, id, costSaved) ==
    LET s1 == AddCost(s, VideoCost(id), costSaved)
        again == costSaved = "written" /\ id \in s.mn.charged
    IN [s1 EXCEPT !.mn.completed = s.mn.completed \cup {id},
                  !.mn.charged = IF costSaved = "written"
                                 THEN s.mn.charged \cup {id} ELSE s.mn.charged,
                  !.mn.recharged = IF again
                                   THEN s.mn.recharged \cup {id} ELSE s.mn.recharged]

\* A variant in which an exception of process_video leaves the loop.
MainVideoDoneFatal(s, outcome, costSaved, idsSaved) ==
    LET id == Head(s.mn.all_new_videos)
        rest == Tail(s.mn.all_new_videos)
        s1 == [s EXCEPT !.mn.all_new_videos = rest,
                        !.mn.pc = IF rest = <<>> THEN "poll" ELSE "process"]
    IN IF outcome = "returned"
       THEN MainProcessed(MainCharged(s1, id, costSaved), id, idsSaved)
       ELSE [s EXCEPT !.mn.pc = "stopped", !.mn.failed = s.mn.failed \cup {id}]

\* The body of `for video in all_new_videos` for the next video: the download
\* fails, or process_video is called and raises, or it returns and the id is
\* recorded.  For the claims: failed = the ids the body failed for, redone =
\* the ids process_video was called for again after it had returned for them.
MainVideoDone(s, outcome, costSaved, idsSaved) ==
    LET id == Head(s.mn.all_new_videos)
        rest == Tail(s.mn.all_new_videos)
        s1 == [s EXCEPT !.mn.all_new_videos = rest,
                        !.mn.pc = IF rest = <<>> THEN "poll" ELSE "process"]
        s2 == IF outcome # "download_failed" /\ id \in s.mn.completed
              THEN [s1 EXCEPT !.mn.redone = s.mn.redone \cup {id}]
              ELSE s1
    IN IF outcome = "returned"
       THEN MainProcessed(MainCharged(s2, id, costSaved), id, idsSaved)
       ELSE [s2 EXCEPT !.mn.failed = s.mn.failed \cup {id}]

\* The process is stopped and started again: processed_ids =
\* load_processed_ids(), total_cost_tracker = TotalCostTracker()
MainRestarted(s) ==
    [s EXCEPT !.processed_ids = LoadProcessedIds(s.ids_file),
              !.total_cost_tracker = TrackerLoaded(s.cost_file),
              !.mn.all_new_videos = <<>>, !.mn.pc = "poll"]

\* The process is stopped when process_video has returned for the next video
\* and processed_ids.add has not been reached.
MainKilled(s, costSaved) ==
    LET id == Head(s.mn.all_new_videos)
        s1 == IF id \in s.mn.completed
              THEN [s EXCEPT !.mn.redone = s.mn.redone \cup {id}]
              ELSE s
    IN MainRestarted(MainCharged(s1, id, costSaved))

VideoOutcomes == {"download_failed", "raised", "returned"}

MainPoll ==
    /\ mn.pc = "poll"
    /\ \E listed \in BOOLEAN :
        /\ faults + BoolCost(~listed) <= MaxFaults
        /\ faults' = faults + BoolCost(~listed)
        /\ Set(MainPolled(Cur, listed))

MainVideo ==
    /\ mn.pc = "process"
    /\ \E outcome \in VideoOutcomes, costSaved, idsSaved \in SaveOutcomes :
        LET cost == IF outcome = "returned"
                    THEN SaveCost(costSaved) + SaveCost(idsSaved) ELSE 1
        IN /\ outcome = "returned" \/ (costSaved = "written" /\ idsSaved = "written")
           /\ faults + cost <= MaxFaults
           /\ faults' = faults + cost
           /\ Set(MainVideoDone(Cur, outcome, costSaved, idsSaved))

MainKill ==
    /\ mn.pc = "process"
    /\ \E costSaved \in SaveOutcomes :
        /\ faults + 1 + SaveCost(costSaved) <= MaxFaults
        /\ faults' = faults + 1 + SaveCost(costSaved)
        /\ Set(MainKilled(Cur, costSaved))

MainRestart ==
    /\ mn.pc \in {"poll", "process"}
    /\ faults < MaxFaults
    /\ faults' = faults + 1
    /\ Set(MainRestarted(Cur))

InitMain ==
    /\ fs = <<>>
    /\ sv = <<>>
    /\ ov = FALSE
    /\ ta = TaIdle
    /\ pv = PvInit("harness")
    /\ calls = <<>>
    /\ rl = NoRetry
    /\ processed_ids = {}
    /\ token_counter = TokenCounterReset
    /\ transcription_counter = TranscriptionCounterReset
    /\ total_cost_tracker = TrackerLoaded(NoCostFile)
    /\ cost_file = NoCostFile
    /\ ids_file = NoIdsFile
    /\ \E folders \in FolderConfigs, parents \in ParentConfigs :
          mn = [NoMain EXCEPT !.pc = "poll", !.folders = folders, !.parents = parents]
    /\ est = NoEst
    /\ workers = <<>>
    /\ faults = 0

NextMain == MainPoll \/ MainVideo \/ MainKill \/ MainRestart

SpecMain == InitMain /\ [][NextMain]_vars

\* main left to run: no one stops the process.  The loop is sequential code:
\* a pass that can be made is made.
NextMainLive == MainPoll \/ MainVideo

SpecMainLive ==
    InitMain /\ [][NextMainLive]_vars /\ WF_vars(MainPoll) /\ WF_vars(MainVideo)

\* main called process_video on a downloaded file; the counters hold what an
\* earlier file, if any, left in them.
Init ==
    /\ \E c \in SrcFiles : fs = InitFs(c)
    /\ sv = <<>>
    /\ ov = FALSE
    /\ ta = TaIdle
    /\ pv = PvInit("start")
    /\ calls = <<>>
    /\ rl = NoRetry
    /\ processed_ids = {}
    /\ \E e \in SrcFiles, n \in 0..1 :
          /\ token_counter = AddUsage(TokenCounterReset, 3 * n)
          /\ transcription_counter =
                [total_seconds |-> n * e.hi, total_files |-> n]
    /\ total_cost_tracker = TrackerLoaded(NoCostFile)
    /\ cost_file = NoCostFile
    /\ ids_file = NoIdsFile
    /\ mn = NoMain
    /\ est = NoEst
    /\ workers = <<>>
    /\ faults = 0

Next ==
    \/ PvStart
    \/ TaOpen
    \/ TaWhole
    \/ TaChunk
    \/ TaSub
    \/ SvCall
    \/ SvEncodeFirst
    \/ SvEncodeSecond
    \/ SvRecurse
    \/ SvRecurseBeyond
    \/ Attempt
    \/ PvSave
    \/ PvUpload

Spec == Init /\ [][Next]_vars

\* ------------------------------------------------- claims on the splitter
\* The outermost split_video_by_size call has returned pv.parts for a source
\* over the 15MB limit.
SplitReturned == pv.pc = "returned" /\ At(fs, SrcPath).size > SIZE_LIMIT

\* The windows of the source the returned segments hold, in order.
Windows(segs) == [k \in 1..Len(segs) |-> <<At(fs, segs[k]).lo, At(fs, segs[k]).hi>>]

\* split_video_by_size returns List[str]: a returned path carries no flag.
Flagged(path) == FALSE

\* C1: every segment split_video_by_size returns for a file over the limit is
\* a file of at most 15MB, or is flagged as accepted oversized.
C1_SegmentsWithinLimit ==
    SplitReturned =>
        \A k \in 1..Len(pv.parts) :
            At(fs, pv.parts[k]).size <= SIZE_LIMIT \/ Flagged(pv.parts[k])

\* C2: the recursion of split_video_by_size stops at a floor: at MaxDepth
\* nested calls a compressed part still over the limit is accepted, and no
\* further recursive call is made.
C2_RecursionFloor == ~ov

\* C3: the windows of the segments returned for a file that was split (a
\* failed split returns no segment) are contiguous, do not overlap
\* and cover [0, duration] exactly.
C3_WindowsCoverSource ==
    SplitReturned /\ pv.parts # <<>> =>
        LET w == Windows(pv.parts)
        IN /\ \A k \in 1..Len(w) : At(fs, pv.parts[k]).ok /\ w[k][1] < w[k][2]
           /\ w[1][1] = 0
           /\ w[Len(w)][2] = At(fs, SrcPath).hi
           /\ \A k \in 1..(Len(w) - 1) : w[k][2] = w[k + 1][1]

\* ---------------------------------------------------------------- merging
\* process_video got past the part loop and merged all_transcripts.
Merged ==
    \/ pv.pc \in {"analysis", "save", "roi", "upload", "done"}
    \/ pv.pc = "raised" /\ pv.why = "save_failed"

\* transcribe_audio returned from its chunk loop.
TaMerged == ta.pc = "idle" /\ ta.chunked /\ ~ta.raised

\* strs[1] + " " + strs[2] + " " + ... + strs[n], built from the left.
Spaced(strs) ==
    LET acc[k \in 0..Len(strs)] ==
            IF k = 0 THEN <<>>
            ELSE IF k = 1 THEN strs[1]
            ELSE acc[k - 1] \o <<SP>> \o strs[k]
    IN acc[Len(strs)]

\* Chunk i, piece j comes before chunk i2, piece j2.
Before(x, y) == x[1] < y[1] \/ (x[1] = y[1] /\ x[2] < y[2])

PartsInOrder == \A a, b \in 1..Len(pv.ev) : a < b => pv.ev[a] < pv.ev[b]
ChunksInOrder == \A a, b \in 1..Len(ta.ev) : a < b => Before(ta.ev[a], ta.ev[b])

\* C4: the merged transcript is the outcomes recorded for the segments, each
\* once, in strictly increasing segment index, joined by single spaces and
\* nothing else; in process_video (over the parts) and in transcribe_audio
\* (over the chunks and the pieces of re-split chunks).
C4_MergeInIndexOrder ==
    /\ Merged => /\ PartsInOrder
                 /\ pv.full_transcript = Spaced(pv.all_transcripts)
    /\ TaMerged => /\ ChunksInOrder
                   /\ ta.result = Spaced(ta.transcripts)

\* C4 witness: an oversized part was chunked again by transcribe_audio, and
\* process_video merged the outcomes of two parts or more.
C4_Witness ==
    /\ pv.pc = "analysis"
    /\ Len(pv.all_transcripts) >= 2
    /\ TaMerged
    /\ Len(ta.transcripts) >= 2

\* ------------------------------------------------------------ total loss
\* The requests made so far that the service answered with a text.
Answered == {k \in 1..Len(calls) : calls[k].res = "ok"}

\* C5: when the service answered a request for any segment of the file with a
\* text, process_video does not raise the all-parts-failed error.
C5_OneTextIsEnough ==
    pv.pc = "raised" /\ pv.why = "all_failed" => Answered = {}

\* C5 witness: a file over 25MB was merged with a part that failed and a part
\* that was transcribed.
C5_Witness ==
    /\ pv.pc = "analysis"
    /\ \E k \in 1..Len(pv.all_transcripts) : pv.all_transcripts[k] = <<Falha>>
    /\ \E k \in Answered : calls[k].part >= 0

\* C6: when every request made for the file failed, process_video raises,
\* no analysis is made, nothing is saved and the id of the video is not added
\* to the processed set; whatever the size of the file.
C6_TotalLossIsFatal ==
    calls # <<>> /\ Answered = {} /\ pv.pc \notin {"start", "direct", "split", "part"} =>
        /\ pv.pc = "raised"
        /\ pv.analysis = "none"
        /\ ~pv.saved
        /\ VideoId \notin processed_ids

\* --------------------------------------------------------------- failures
\* Where x stands in a list of segment indices.
Slots(ev, x) == {m \in 1..Len(ev) : ev[m] = x}

\* The requests of the running call of transcribe_audio for its chunk i.
ChunkCalls(i) ==
    {k \in 1..Len(calls) :
        calls[k].part = ta.part /\ calls[k].kind = "chunk" /\ calls[k].i = i}

\* The part loop of process_video is over.
PartsDone == pv.pc # "part"

\* C7: a request for segment k that fails with an error other than the token
\* limit leaves exactly one marker, at the place of segment k; the loop goes
\* on and every later segment is submitted in its turn (a chunk gets its
\* request, a part its call of transcribe_audio); the recorded outcomes stay
\* in segment order.  For the chunks of transcribe_audio and for the parts of
\* process_video.
C7_FailureIsOneMarker ==
    /\ \A k \in 1..Len(calls) :
          calls[k].res = "transient" /\ calls[k].kind = "chunk" /\ calls[k].part = ta.part =>
              /\ \E m \in 1..Len(ta.ev) :
                    /\ Slots(ta.ev, <<calls[k].i, 0>>) = {m}
                    /\ ta.transcripts[m] = <<PartError(calls[k].i)>>
              /\ TaMerged =>
                    \A i2 \in (calls[k].i + 1)..(Len(ta.chunks) - 1) : ChunkCalls(i2) # {}
    /\ \A k \in 1..Len(calls) :
          calls[k].res = "transient" /\ calls[k].kind = "whole" /\ calls[k].part >= 0 =>
              /\ \E m \in 1..Len(pv.ev) :
                    /\ Slots(pv.ev, calls[k].part) = {m}
                    /\ pv.all_transcripts[m] = <<Falha>>
              /\ PartsDone =>
                    \A p2 \in (calls[k].part + 1)..(Len(pv.parts) - 1) : Slots(pv.ev, p2) # {}
    /\ PartsInOrder
    /\ ChunksInOrder

\* C8: a request for a segment that the service rejects for its token limit
\* is followed by a re-split of that segment into two pieces or more, each
\* strictly shorter than the segment; for the chunks of transcribe_audio and
\* for the parts of process_video.
C8_TokenLimitResplits ==
    /\ \A k \in 1..Len(calls) :
          calls[k].res = "token_limit" /\ calls[k].part >= 0 => calls[k].kind # "whole"
    /\ ta.pc = "sub" =>
          /\ Len(ta.smaller_chunks) >= 2
          /\ \A j \in 1..Len(ta.smaller_chunks) :
                LET piece == At(fs, ta.smaller_chunks[j])
                    chunk == calls[Len(calls)].c
                IN piece.ex => piece.hi - piece.lo < chunk.hi - chunk.lo

\* C9: the marker of a chunk is recorded only after the request for the chunk
\* was made again: a transient failure is retried before it is given up.
C9_TransientRetried ==
    \A m \in 1..Len(ta.ev) :
        ta.transcripts[m] = <<PartError(ta.ev[m][1])>> =>
            Cardinality(ChunkCalls(ta.ev[m][1])) >= 2

\* ------------------------------------------------------------ retry loops
\* The passes of the loop that raised.
Raised(log) == {k \in 1..Len(log) : log[k] # "ok"}

\* C10: a retry loop makes at most MAX_RETRIES attempts; it sleeps after each
\* failed attempt but the last, RETRY_DELAY seconds and then twice as long,
\* each sleep longer than the one before; after MAX_RETRIES failed attempts
\* it returns its fallback and attempts nothing more.
C10_BoundedBackoff ==
    /\ Len(rl.log) <= MAX_RETRIES
    /\ Len(rl.sleeps) <= MAX_RETRIES - 1
    /\ Len(rl.sleeps) = Cardinality(Raised(rl.log)) - (IF rl.result = "fallback" THEN 1 ELSE 0)
    /\ \A k \in 1..Len(rl.sleeps) :
          rl.sleeps[k] = IF k = 1 THEN RETRY_DELAY ELSE 2 * rl.sleeps[k - 1]
    /\ \A k \in 1..(Len(rl.sleeps) - 1) : rl.sleeps[k] < rl.sleeps[k + 1]
    /\ Cardinality(Raised(rl.log)) = MAX_RETRIES <=> rl.result = "fallback"
    /\ rl.result # "none" => ~ENABLED Attempt

\* C10 witness: three attempts failed, the loop slept 5 and 10 seconds and
\* returned the fallback.
C10_Witness ==
    /\ rl.result = "fallback"
    /\ Len(rl.log) = MAX_RETRIES
    /\ rl.sleeps = <<RETRY_DELAY, 2 * RETRY_DELAY>>

\* ------------------------------------------------------------------ costs
\* process_video is over: it returned or raised.
PvOver == pv.pc \in {"done", "raised"}

\* C11: the cost process_video hands to add_cost is never negative, and the
\* total after an add_cost is the total before it plus that cost, so never
\* below it.
C11_LedgerMonotonic ==
    /\ total_cost_tracker.after >= total_cost_tracker.before
    /\ total_cost_tracker.total_cost = total_cost_tracker.after
    /\ pv.committed =>
          /\ pv.custo_atual >= 0
          /\ total_cost_tracker.after = total_cost_tracker.before + pv.custo_atual

\* C11 witness: process_video added the cost of a file, more than nothing, to
\* the total.
C11_Witness ==
    /\ pv.committed
    /\ pv.custo_atual > 0
    /\ total_cost_tracker.total_cost > total_cost_tracker.before

\* ------------------------------------------------------------- temp files
\* C13: when process_video is over, however it ended, no part, compressed
\* part or re-split piece is left in the temp directory.
C13_TempFilesDeleted == PvOver => DOMAIN fs \subseteq {SrcPath}

\* C14: every file sent to the transcription service is at most
\* MAX_FILE_SIZE.
C14_RequestsWithinCeiling ==
    \A k \in 1..Len(calls) : calls[k].c.size <= MAX_FILE_SIZE

\* process_video took the branch of a file of at most MAX_FILE_SIZE.
DirectBranch ==
    \/ pv.pc = "direct"
    \/ /\ pv.pc \notin {"start", "split", "harness", "returned"}
       /\ pv.why \notin {"not_found", "split_failed"}
       /\ ta.part = -1

\* C15: a file of at most MAX_FILE_SIZE is never split, and is transcribed
\* by exactly one request, whatever its duration.
C15_DirectIsOneCall ==
    DirectBranch =>
        /\ ~ta.chunked
        /\ Len(calls) <= 1
        /\ Merged => Len(calls) = 1

\* C16: every part process_video got from the split has exactly one entry in
\* all_transcripts, and every chunk of transcribe_audio has its entry (or
\* the entries of its pieces) in transcripts: none is left out.
C16_OneEntryPerSegment ==
    /\ PartsDone /\ pv.parts # <<>> =>
          \A p \in 0..(Len(pv.parts) - 1) : Cardinality(Slots(pv.ev, p)) = 1
    /\ TaMerged =>
          \A i \in 0..(Len(ta.chunks) - 1) :
              \/ Cardinality(Slots(ta.ev, <<i, 0>>)) = 1
              \/ \E m \in 1..Len(ta.ev) : ta.ev[m][1] = i /\ ta.ev[m][2] > 0

\* ---------------------------------------------------------------- counters
SumTo(seq) ==
    LET acc[k \in 0..Len(seq)] == IF k = 0 THEN 0 ELSE acc[k - 1] + seq[k]
    IN acc[Len(seq)]

\* C17: once process_video has started, the counters hold the usage of this
\* file alone, whatever an earlier file left in them, and the cost it hands
\* to add_cost is the cost of that usage.
C17_CountersPerFile ==
    pv.pc \notin {"start", "harness", "returned"} =>
        /\ transcription_counter.total_files = Len(pv.durations)
        /\ transcription_counter.total_seconds = SumTo(pv.durations)
        /\ token_counter = AddUsage(TokenCounterReset, pv.responses)
        /\ pv.committed =>
              pv.custo_atual = SumTo(pv.durations) * TRANSCRIBE_PRICE
                               + pv.responses * (PROMPT_PRICE + COMPLETION_PRICE)

\* C17 witness: a file was processed to the end, with requests and responses
\* of its own, and its cost was handed to add_cost.
C17_Witness ==
    /\ pv.committed
    /\ pv.custo_atual > 0
    /\ pv.durations # <<>>
    /\ pv.responses > 0

\* The audio seconds of the requests that were answered.
AnsweredSeconds ==
    SumTo([k \in 1..Len(calls) |->
            IF calls[k].res = "ok" THEN calls[k].c.hi - calls[k].c.lo ELSE 0])

\* C18: when process_video is over, total_files is the number of requests
\* sent to the transcription service for the file, and total_seconds is the
\* audio of the requests that were answered.
C18_UsageMatchesRequests ==
    PvOver =>
        /\ transcription_counter.total_files = Len(calls)
        /\ transcription_counter.total_seconds = AnsweredSeconds

\* ----------------------------------------------------------------- ledger
\* C12: after a crash in the middle of save, the total loaded at the next
\* start is the total the file held before the add_cost that was under way,
\* or the total after it.
C12_CrashSafeLedger ==
    (total_cost_tracker.pc = "loaded" /\ total_cost_tracker.crashed_at \in {"open", "dump"})
        => total_cost_tracker.total_cost
               \in {total_cost_tracker.stored, total_cost_tracker.after}

\* C19: whenever add_cost has returned, TOTAL_COST_FILE holds the total the
\* tracker has in memory.
C19_PersistedOnReturn ==
    total_cost_tracker.pc = "returned" =>
        /\ cost_file.st = "valid"
        /\ cost_file.total_cost = total_cost_tracker.total_cost

\* ------------------------------------------------------------------- main
\* C20: process_video is never called again for an id it has returned for:
\* not in the same pass over the folders, not in a later one, not after a
\* restart.
C20_ProcessedOnce == mn.redone = {}

\* ----------------------------------------------------------- split windows
\* Window i of the num_chunks equal windows of the source.
SrcWindow(i) ==
    LET d == At(fs, SrcPath).hi
        pd == d \div NumChunks(At(fs, SrcPath).size)
        e == (i + 1) * pd
    IN <<i * pd, IF e < d THEN e ELSE d>>

\* The window of the source that holds the content c.
WindowOf(c) ==
    {i \in 0..(NumChunks(At(fs, SrcPath).size) - 1) :
        c.ok /\ SrcWindow(i)[1] <= c.lo /\ c.hi <= SrcWindow(i)[2]}

\* C24: a file of at most 15MB that split_video_by_size can open is returned
\* as the only segment and nothing is written; a larger file is cut in
\* ceil(size / 15MB) equal windows: every returned segment holds a window of
\* the source or, after a recursion, a piece of one, and the segments are
\* returned in increasing order of what they hold, the pieces of a window in
\* the place of the window.
C24_EqualWindowsInOrder ==
    /\ pv.pc = "returned" /\ At(fs, SrcPath).size <= SIZE_LIMIT /\ pv.parts # <<>> =>
          /\ pv.parts = <<SrcPath>>
          /\ DOMAIN fs = {SrcPath}
    /\ SplitReturned =>
          /\ \A k \in 1..Len(pv.parts) :
                At(fs, pv.parts[k]).ex => WindowOf(At(fs, pv.parts[k])) # {}
          /\ \A k, k2 \in 1..Len(pv.parts) :
                k < k2 /\ At(fs, pv.parts[k]).ex /\ At(fs, pv.parts[k2]).ex =>
                    At(fs, pv.parts[k]).hi <= At(fs, pv.parts[k2]).lo

\* ------------------------------------------------------------- collisions
Distinct(seq) == \A a, b \in 1..Len(seq) : a # b => seq[a] # seq[b]

\* The entries of seq from place k on.
From(seq, k) == {seq[m] : m \in k..Len(seq)}

\* The segment files that were emitted and are not transcribed yet: the parts
\* the active split_video_by_size calls have collected, the parts of
\* process_video from the one in hand on, the chunks and the pieces of
\* transcribe_audio from the one in hand on.
Pending ==
    UNION {From(sv[k].parts, 1) : k \in 1..Len(sv)}
    \cup (IF pv.pc = "part" THEN From(pv.parts, pv.i + 1) ELSE {})
    \cup (IF ta.pc \in {"chunk", "resplit", "sub"} THEN From(ta.chunks, ta.i + 1) ELSE {})
    \cup (IF ta.pc = "sub" THEN From(ta.smaller_chunks, ta.j + 1) ELSE {})

\* A step leaves the files that are pending before and after it as they are.
PendingKept ==
    \A p \in Pending \cap Pending' :
        p \in DOMAIN fs => p \in DOMAIN fs' /\ fs'[p] = fs[p]

\* C25: the paths one split_video_by_size call returns are pairwise distinct
\* (the parts of process_video, the chunks of transcribe_audio, the pieces of
\* a re-split chunk), and no step overwrites or removes a segment file that
\* is still to be transcribed.
C25_NoCollision ==
    /\ [](Distinct(pv.parts) /\ Distinct(ta.chunks) /\ Distinct(ta.smaller_chunks))
    /\ [][PendingKept]_vars

\* ------------------------------------------------------------ empty splits
\* The chunks of the running transcribe_audio call that the service rejected
\* for the token limit.
Resplit ==
    {calls[k].i : k \in {m \in 1..Len(calls) :
        calls[m].part = ta.part /\ calls[m].kind = "chunk" /\ calls[m].res = "token_limit"}}

\* C26: a split that returns no segment is a failure: process_video raises;
\* transcribe_audio does not return from an empty list of chunks, and leaves
\* an entry for a chunk whose re-split returned nothing; no empty transcript
\* is returned by transcribe_audio or merged by process_video.
C26_EmptySplitFails ==
    /\ (pv.pc \notin {"start", "direct", "split", "harness", "returned"}
          /\ ~DirectBranch /\ pv.parts = <<>>)
        => (pv.pc = "raised" /\ pv.why \in {"not_found", "split_failed"})
    /\ TaMerged =>
          /\ ta.chunks # <<>>
          /\ ta.result # <<>>
          /\ \A i \in Resplit : \E m \in 1..Len(ta.ev) : ta.ev[m][1] = i
    /\ Merged => pv.full_transcript # <<>>

\* ---------------------------------------------------------- chunk_duration
\* Values of the chunk_duration argument.
ChunkDurations == {CHUNK_DURATION, CHUNK_DURATION \div 2, 1}

\* The state s with chunk_duration = cd in every active call.
WithCd(s, cd) ==
    [s EXCEPT !.sv = [k \in 1..Len(s.sv) |-> [s.sv[k] EXCEPT !.chunk_duration = cd]]]

BothCommitted ==
    /\ faults = 0
    /\ \A w \in Workers : workers[w].pc = "returned"

\* C29: when two processes that loaded the same ledger file have each added a
\* cost with add_cost, the file holds the total they loaded plus both costs.
C29_NoLostCommit ==
    (workers # <<>> /\ BothCommitted) =>
        /\ cost_file.st = "valid"
        /\ cost_file.total_cost =
              workers[1].before + (workers[1].after - workers[1].before)
                                + (workers[2].after - workers[2].before)

\* ---------------------------------------------------------------- estimates
\* Counter c holds at least what counter b holds, field by field.
TokensAtLeast(c, b) ==
    /\ c.total_tokens >= b.total_tokens
    /\ c.prompt_tokens >= b.prompt_tokens
    /\ c.completion_tokens >= b.completion_tokens
SecondsAtLeast(c, b) ==
    /\ c.total_seconds >= b.total_seconds
    /\ c.total_files >= b.total_files

\* C23: estimate_cost leaves the counters as it found them and returns a value
\* that depends on them alone; a second call with no update in between
\* returns the same value; the value is 0 on a counter that was just reset,
\* and it is not below an earlier value when no field of the counter is
\* below what it was then.
C23_EstimateIsPure ==
    /\ est.n > 0 =>
          /\ token_counter = est.tk
          /\ transcription_counter = est.tr
          /\ est.token = TokenCost(token_counter)
          /\ est.transcription = TranscriptionCost(transcription_counter)
    /\ est.n >= 2 =>
          /\ est.token = est.prev_token
          /\ est.transcription = est.prev_transcription
    /\ token_counter = TokenCounterReset => TokenCost(token_counter) = 0
    /\ transcription_counter = TranscriptionCounterReset =>
          TranscriptionCost(transcription_counter) = 0
    /\ TokensAtLeast(token_counter, est.tk) => TokenCost(token_counter) >= est.token
    /\ SecondsAtLeast(transcription_counter, est.tr) =>
          TranscriptionCost(transcription_counter) >= est.transcription

\* C23 witness: both counters hold usage and estimate_cost was called twice
\* on them with no update in between.
C23_Witness ==
    /\ est.n >= 2
    /\ est.token > 0
    /\ est.transcription > 0

\* The videos still to be taken by the loop over all_new_videos.
ToDo == {mn.all_new_videos[k] : k \in 1..Len(mn.all_new_videos)}

\* C22: the loop of main never stops: whatever fails for a video, the loop
\* takes the next video of the pass, and the next pass starts after the
\* last one: again and again main is at the start of a pass with every video
\* found in the pass before attempted.
C22_LoopGoesOn == []<>(mn.pc = "poll" /\ ToDo = {})

\* C22 witness: the body of the loop failed for a video, the loop went on, a
\* later pass found the video again and processed it.
C22_Witness ==
    /\ mn.failed # {}
    /\ mn.failed \subseteq mn.completed
    /\ mn.pc = "poll"

\* C27: the cost of a video is written to the ledger file once at most,
\* whatever fails and wherever the process is stopped and started again.
C27_ChargedOnce == mn.recharged = {}

\* ------------------------------------------------------------ file errors
\* C21: when process_video raised (the source is missing, the split failed,
\* every part failed, the results could not be saved), the ledger, its file,
\* the processed set and its file are as they were when it was called; they
\* change only when process_video has returned.
C21_AbortLeavesLedger ==
    /\ pv.pc = "raised" =>
          /\ total_cost_tracker = TrackerLoaded(NoCostFile)
          /\ cost_file = NoCostFile
          /\ processed_ids = {}
          /\ ids_file = NoIdsFile
    /\ (\/ total_cost_tracker # TrackerLoaded(NoCostFile)
        \/ cost_file # NoCostFile
        \/ processed_ids # {}
        \/ ids_file # NoIdsFile) => pv.pc = "done"

\* C21 witness: the file was transcribed and analysed, its usage was counted,
\* and then the results could not be saved.
C21_Witness ==
    /\ pv.pc = "raised"
    /\ pv.why = "save_failed"
    /\ pv.durations # <<>>
    /\ pv.responses > 0

\* ------------------------------------------------- analysis service failures
\* The texts a retry loop can hand back: the response or the fallback.
ReturnedTexts == {"response", "fallback"}

\* process_video is inside generate_sales_analysis or generate_roi_report.
InRetryLoop == pv.pc \in {"analysis", "roi"} /\ rl.fn # "none"

\* C30: generate_sales_analysis and generate_roi_report (identify_speakers has
\* the same loop) never raise and return a text: no step taken inside them
\* aborts process_video, whatever the service does; the third failed attempt
\* hands the fallback text to the caller, which goes on; and a file whose
\* analysis or report is the fallback is, when process_video is over without
\* a failure of the Drive, saved, committed to the ledger and marked processed.
C30_AnalysisFailureIsNotFatal ==
    /\ [](/\ rl.result \in ReturnedTexts \cup {"none"}
          /\ pv.analysis \in ReturnedTexts \cup {"none"}
          /\ pv.roi_report \in ReturnedTexts \cup {"none"}
          /\ pv.pc \in {"save", "roi", "upload", "done"} => pv.analysis \in ReturnedTexts
          /\ pv.pc \in {"upload", "done"} => pv.roi_report \in ReturnedTexts
          /\ (pv.pc = "raised" /\ pv.why # "save_failed") => pv.analysis = "none"
          /\ pv.pc = "done" =>
                /\ pv.saved /\ pv.committed
                /\ total_cost_tracker.total_cost = pv.custo_atual
                /\ VideoId \in processed_ids)
    /\ [][InRetryLoop =>
            /\ pv'.pc \in {"analysis", "save", "roi", "upload"}
            /\ Cardinality(Raised(rl.log)) = MAX_RETRIES - 1 => pv'.pc # pv.pc
            /\ (pv.pc = "analysis" /\ pv'.pc = "save"
                 /\ Cardinality(Raised(rl.log)) = MAX_RETRIES - 1)
                   => (pv'.analysis = "fallback" <=> faults' > faults)
            /\ (pv.pc = "roi" /\ pv'.pc = "upload"
                 /\ Cardinality(Raised(rl.log)) = MAX_RETRIES - 1)
                   => (pv'.roi_report = "fallback" <=> faults' > faults)]_vars

\* C30 witness: the analysis service failed three times, the analysis is the
\* fallback text, and the file is saved, committed and marked processed.
C30_Witness ==
    /\ pv.pc = "done"
    /\ pv.analysis = "fallback"
    /\ pv.saved /\ pv.committed
    /\ VideoId \in processed_ids

====
